---- MODULE Spec2Model ----
(***************************************************************************)
(* A model of pllueca/graphs: the cell-state grid (src/lib/grid.py), its   *)
(* four path searches, its obstacle generator and its serialization, the   *)
(* replay and editing of src/grid_search.py, the directed-graph algorithms *)
(* (src/lib/directed_graph.py), and the traversals, components and tree    *)
(* test of src/lib/base_graph.py and src/lib/undirected_graph.py.          *)
(*                                                                         *)
(* Python values are modelled as follows: None is the empty tuple <<>>, a  *)
(* coordinate (row, col) is the tuple <<row, col>>, a CellState is the     *)
(* string of its name, a list is a sequence, a raised exception is the     *)
(* string of its type in the variable err.                                 *)
(***************************************************************************)
EXTENDS Integers, Sequences, FiniteSets, TLC

VARIABLES
    width,      \* GridGraph._width
    height,     \* GridGraph._height
    cells,      \* GridGraph._cells: cells[col][row] is a Cell
    current,    \* GridGraph._current: <<row, col>> or None
    goal,       \* GridGraph._goal: <<row, col>> or None
    err,        \* the exception the last call raised, "none" if it returned
    inb,        \* every call so far was given a target inside the grid
    calls,      \* the number of calls made on the grid since its construction
    pc,         \* "idle", or "search" while a find_path_* loop is running
    alg,        \* the search that is running: the name compute_path gives it
    random_neighbor, \* find_path_dfs's argument (True for the other searches)
    to_visit,   \* the frontier list of a running find_path_bfs or find_path_dfs
    to_visit_heap, \* the frontier heap of a running greedy or hybrid search
    visited,    \* its set of coordinates already placed in the frontier
    path,       \* its list of coordinates popped so far
    steps,      \* find_path_greedy_semirandom_bfs's count of pops
    result,     \* what the last finished search returned: [alg, path]
    bfs_len,    \* len() of the last sequence find_path_bfs returned, 0 if none
    gen_op,     \* the generator call that is running, "none" if none is
    gen_n,      \* its argument n
    gen_left,   \* make_n_paths: the searches of "for _ in range(n)" still to run
    gen_path,   \* its local set path: the cells of the witness sequences
    gen_before, \* the cells as they were when the last generator call began
    gen_done,   \* the last generator call that returned, "none" if it raised
    nodes,      \* DirectedGraph.nodes
    adjacency_list, \* DirectedGraph.adjacency_list: node -> list of successors
    hc,         \* what has_cycles() returned: "True" or "False", "none" before
    topo,       \* how topological_order() ended: [status, ordering]
    directed,   \* the graph is a DirectedGraph (an UndirectedGraph if FALSE)
    tree,       \* what is_tree() returned: "True" or "False", "none" before
    components, \* what connected_components() returned: [status, list of graphs]
    traversal,  \* what the last graph_traversal_* call returned: [kind, start, order]
    step,       \* MyGame.step: the place in path_to_goal the replay has reached
    cost,       \* how the last path_cost call ended: [status, value, path, states]
    loaded,     \* what from_dict(to_dict()) built: [status, width, height, cells, current, goal]
    last        \* the last call that takes coordinates: [op, coords]

gridVars == <<width, height, cells, current, goal>>
callVars == <<err, inb, calls>>
genVars == <<gen_op, gen_n, gen_left, gen_path, gen_before, gen_done>>
graphVars == <<nodes, adjacency_list, hc, topo>>
queryVars == <<directed, tree, components, traversal>>
appVars == <<step, cost, loaded, last>>
searchVars == <<pc, alg, random_neighbor, to_visit, to_visit_heap, visited, path, steps, result, bfs_len>>

None == <<>>

---------------------------------------------------------------------------
(* Bounds of the model *)

\* the grids the constructor is called with: <<width, height>>
Dims == {<<2, 2>>, <<3, 1>>, <<1, 3>>}

\* the grids the searches are run on, with a blocked list: <<width, height>>
SearchDims == {<<2, 2>>, <<3, 2>>, <<2, 3>>}

\* and without one: a corridor long enough for the hybrid search to leave its
\* random phase
LongDims == {<<11, 1>>}

\* the grids termination and the generators are checked on, with a blocked
\* list and without one
SmallDims == {<<2, 2>>, <<4, 1>>, <<1, 3>>}
OpenDims == {<<3, 2>>, <<2, 3>>}

\* longest list of blocked coordinates handed to the constructor
MaxInactives == 2

\* most calls made on one grid after its construction
MaxCalls == 3

\* largest n handed to add_n_inactives and make_n_paths
MaxN == 2

\* find_path_greedy_semirandom_bfs pops at random while steps <= 10
RandomSteps == 10

---------------------------------------------------------------------------
(* Cell, src/lib/grid.py *)

CellStates == {"ACTIVE", "INACTIVE", "SLOW", "CURRENT", "VISITED", "GOAL"}

NewCell == [state |-> "ACTIVE", prev_state |-> "None"]

change_state(cell, new_state) == [state |-> new_state, prev_state |-> cell.state]

\* revert_state raises when there is no previous state: see RevertRaises
RevertRaises(cell) == cell.prev_state = "None"

revert_state(cell) == [cell EXCEPT !.state = cell.prev_state]

make_current(cell) == [state |-> "CURRENT", prev_state |-> cell.state]

make_goal(cell) == [state |-> "GOAL", prev_state |-> cell.state]

---------------------------------------------------------------------------
(* Python list indexing: -len <= i < len is accepted, negative i counts    *)
(* from the end, anything else raises IndexError.                          *)

IndexOk(i, len) == (-len <= i) /\ (i < len)

Index(i, len) == IF i < 0 THEN i + len ELSE i

\* GridGraph.at(row, col) is self._cells[col][row]
AtRaises(w, h, row, col) == ~(IndexOk(col, w) /\ IndexOk(row, h))

at(c, w, h, row, col) == c[Index(col, w)][Index(row, h)]

\* the cell at (row, col) replaced (the effect of mutating self.at(row, col))
SetAt(c, w, h, row, col, cell) ==
    [c EXCEPT ![Index(col, w)][Index(row, h)] = cell]

\* 0 <= row < height and 0 <= col < width
InBounds(w, h, pos) ==
    /\ 0 <= pos[1] /\ pos[1] < h
    /\ 0 <= pos[2] /\ pos[2] < w

Coords(w, h) == (0 .. h - 1) \X (0 .. w - 1)

---------------------------------------------------------------------------
(* GridGraph.set_current, as a function from the grid to the grid after    *)
(* the call and the exception raised, if any.                              *)

SetCurrentUnmarked(c, w, h, cur, row, col) ==
    \* a set_current that forgets to mark the previous cell
    IF AtRaises(w, h, row, col)
    THEN [cells |-> c, current |-> <<row, col>>, err |-> "IndexError"]
    ELSE [cells |-> SetAt(c, w, h, row, col, make_current(at(c, w, h, row, col))),
          current |-> <<row, col>>, err |-> "none"]

set_current(c, w, h, cur, row, col) ==
    LET prev_current == cur
        new_current == <<row, col>>
    IN  IF AtRaises(w, h, row, col)
        THEN [cells |-> c, current |-> new_current, err |-> "IndexError"]
        ELSE
        LET c1 == SetAt(c, w, h, row, col, make_current(at(c, w, h, row, col)))
        IN  IF prev_current = None
            THEN [cells |-> c1, current |-> new_current, err |-> "none"]
            ELSE IF AtRaises(w, h, prev_current[1], prev_current[2])
            THEN [cells |-> c1, current |-> new_current, err |-> "IndexError"]
            ELSE
            LET pcell == at(c1, w, h, prev_current[1], prev_current[2])
            IN  IF RevertRaises(pcell)
                THEN [cells |-> c1, current |-> new_current, err |-> "Exception"]
                ELSE [cells |-> SetAt(c1, w, h, prev_current[1], prev_current[2],
                                      change_state(revert_state(pcell), "VISITED")),
                      current |-> new_current, err |-> "none"]

---------------------------------------------------------------------------
(* GridGraph.__init__ with every coordinate inside the grid *)

RECURSIVE MarkInactives(_, _, _, _)
MarkInactives(c, w, h, inactives) ==
    IF inactives = <<>> THEN c
    ELSE LET p == Head(inactives)
         IN  MarkInactives(
                 SetAt(c, w, h, p[1], p[2],
                       change_state(at(c, w, h, p[1], p[2]), "INACTIVE")),
                 w, h, Tail(inactives))

GridInit(w, h, initial_position, goal_position, inactives) ==
    LET c0 == [col \in 0 .. w - 1 |-> [row \in 0 .. h - 1 |-> NewCell]]
        s1 == IF initial_position # None
              THEN set_current(c0, w, h, None, initial_position[1], initial_position[2])
              ELSE [cells |-> c0, current |-> None, err |-> "none"]
        c2 == IF goal_position # None
              THEN SetAt(s1.cells, w, h, goal_position[1], goal_position[2],
                         make_goal(at(s1.cells, w, h, goal_position[1], goal_position[2])))
              ELSE s1.cells
    IN  [cells |-> MarkInactives(c2, w, h, inactives),
         current |-> s1.current,
         goal |-> goal_position]

\* the lists of at most n coordinates
SeqsUpTo(S, n) == UNION {[1 .. k -> S] : k \in 0 .. n}

\* the constructor called with arguments inside the grid
Construct(dims) ==
    \E d \in dims :
      \E ip \in Coords(d[1], d[2]) \cup {None},
         gp \in Coords(d[1], d[2]) \cup {None},
         ina \in SeqsUpTo(Coords(d[1], d[2]), MaxInactives) :
        LET g == GridInit(d[1], d[2], ip, gp, ina)
        IN  /\ width = d[1]
            /\ height = d[2]
            /\ cells = g.cells
            /\ current = g.current
            /\ goal = g.goal

---------------------------------------------------------------------------
(* The grid driven by set_current and move_current *)

NoResult == [alg |-> "none", path |-> None]

\* path_cost, from_dict and the calls that take coordinates were not made
NoCost == [status |-> "none", value |-> 0, path |-> None, states |-> <<>>]
NoLoad == [status |-> "none", width |-> 0, height |-> 0, cells |-> <<>>,
           current |-> None, goal |-> None]
NoCall == [op |-> "none", coords |-> <<>>]

\* no search is running
SearchIdle ==
    /\ pc = "idle"
    /\ alg = "none"
    /\ random_neighbor = TRUE
    /\ to_visit = <<>>
    /\ to_visit_heap = <<>>
    /\ visited = {}
    /\ path = <<>>
    /\ steps = 0
    /\ result = NoResult
    /\ bfs_len = 0
    /\ gen_op = "none"
    /\ gen_n = 0
    /\ gen_left = 0
    /\ gen_path = {}
    /\ gen_before = <<>>
    /\ gen_done = "none"
    /\ step = 0
    /\ cost = NoCost
    /\ loaded = NoLoad
    /\ last = NoCall

NoTopo == [status |-> "none", ordering |-> None]
NoComponents == [status |-> "none", list |-> <<>>]
NoTraversal == [kind |-> "none", start |-> 0, order |-> <<>>]

\* no query was made on the graph
NoQuery ==
    /\ tree = "none"
    /\ components = NoComponents
    /\ traversal = NoTraversal

\* no directed graph was built
NoGraph ==
    /\ nodes = {}
    /\ adjacency_list = <<>>
    /\ hc = "none"
    /\ topo = NoTopo
    /\ directed = TRUE
    /\ NoQuery

InitGrid ==
    /\ Construct(Dims)
    /\ err = "none"
    /\ inb = TRUE
    /\ calls = 0
    /\ SearchIdle
    /\ NoGraph

\* the targets set_current is called with: the coordinates of the grid
Targets == Coords(width, height)

SetCurrent(row, col) ==
    LET r == set_current(cells, width, height, current, row, col)
    IN  /\ calls < MaxCalls
        /\ calls' = calls + 1
        /\ cells' = r.cells
        /\ current' = r.current
        /\ err' = r.err
        /\ inb' = (inb /\ InBounds(width, height, <<row, col>>))
        /\ UNCHANGED <<width, height, goal, searchVars, genVars, graphVars, queryVars, appVars>>

DIRECTIONS == <<<<0, 1>>, <<1, 0>>, <<0, -1>>, <<-1, 0>>>>

\* GridGraph.move_current: the grid after the call
move_current(c, w, h, cur, direction) ==
    IF cur = None
    THEN [cells |-> c, current |-> cur, err |-> "none"]
    ELSE IF \/ (direction[1] = -1 /\ cur[1] = 0)
            \/ (direction[1] = 1 /\ cur[1] = w - 1)
            \/ (direction[2] = -1 /\ cur[2] = 0)
            \/ (direction[2] = 1 /\ cur[2] = h - 1)
    THEN [cells |-> c, current |-> cur, err |-> "none"]
    ELSE set_current(c, w, h, cur, cur[1] + direction[1], cur[2] + direction[2])

MoveTarget(cur, direction) ==
    IF cur = None THEN None ELSE <<cur[1] + direction[1], cur[2] + direction[2]>>

MoveCurrent(direction) ==
    LET r == move_current(cells, width, height, current, direction)
        t == MoveTarget(current, direction)
    IN  /\ calls < MaxCalls
        /\ calls' = calls + 1
        /\ cells' = r.cells
        /\ current' = r.current
        /\ err' = r.err
        /\ inb' = (inb /\ (t = None \/ InBounds(width, height, t)))
        /\ UNCHANGED <<width, height, goal, searchVars, genVars, graphVars, queryVars, appVars>>

NextGrid ==
    \/ \E t \in Targets : SetCurrent(t[1], t[2])
    \/ \E i \in DOMAIN DIRECTIONS : MoveCurrent(DIRECTIONS[i])

vars == <<gridVars, callVars, searchVars, genVars, graphVars, queryVars, appVars>>

SpecGrid == InitGrid /\ [][NextGrid]_vars

---------------------------------------------------------------------------
(* Claims about set_current and move_current *)

CurrentCells == {p \in Coords(width, height) : cells[p[2]][p[1]].state = "CURRENT"}

VisitedCells == {p \in Coords(width, height) : cells[p[2]][p[1]].state = "VISITED"}

\* C9 as claimed: a set_current(row, col) with (row, col) inside the grid, on
\* a grid only ever called with targets inside it, leaves current at (row, col),
\* the cell at (row, col) Current and the cell that was current before Visited.
C9_SetCurrentMarks ==
    [][\A t \in Coords(width, height) :
          (inb /\ SetCurrent(t[1], t[2])) =>
              /\ current' = t
              /\ cells'[t[2]][t[1]].state = "CURRENT"
              /\ current # None => cells'[current[2]][current[1]].state = "VISITED"]_vars

\* C10: as long as set_current and move_current were only called with targets
\* inside the grid, at most one cell has state Current.
C10_AtMostOneCurrent == inb => Cardinality(CurrentCells) <= 1

\* C10 witness: the marker was moved twice, leaving visited cells behind, and
\* exactly one cell is Current.
C10_Witness ==
    /\ inb /\ calls >= 2
    /\ Cardinality(CurrentCells) = 1
    /\ Cardinality(VisitedCells) >= 2
    /\ CurrentCells = {current}

---------------------------------------------------------------------------
(* GridGraph.neighbors and the four searches, src/lib/grid.py *)

Abs(x) == IF x < 0 THEN -x ELSE x

manhattan_distance(source, dest) ==
    Abs(dest[1] - source[1]) + Abs(dest[2] - source[2])

\* the neighbours of (row, col) in the order of DIRECTIONS, before any shuffle
RECURSIVE NeighborsFrom(_, _, _, _, _, _)
NeighborsFrom(c, w, h, row, col, k) ==
    IF k > Len(DIRECTIONS) THEN <<>>
    ELSE LET new_i == row + DIRECTIONS[k][1]
             new_j == col + DIRECTIONS[k][2]
             rest == NeighborsFrom(c, w, h, row, col, k + 1)
         IN  IF /\ 0 <= new_i /\ new_i < h
                /\ 0 <= new_j /\ new_j < w
                /\ at(c, w, h, new_i, new_j).state # "INACTIVE"
             THEN <<<<new_i, new_j>>>> \o rest
             ELSE rest

\* random.shuffle(ns): every order of ns
Shuffles(ns) ==
    {[k \in DOMAIN ns |-> ns[f[k]]] :
        f \in {g \in [DOMAIN ns -> DOMAIN ns] :
                  \A a, b \in DOMAIN ns : a # b => g[a] # g[b]}}

\* a neighbors that walks through Inactive cells
RECURSIVE NeighborsThroughWalls(_, _, _, _, _, _)
NeighborsThroughWalls(c, w, h, row, col, k) ==
    IF k > Len(DIRECTIONS) THEN <<>>
    ELSE LET new_i == row + DIRECTIONS[k][1]
             new_j == col + DIRECTIONS[k][2]
             rest == NeighborsThroughWalls(c, w, h, row, col, k + 1)
         IN  IF (0 <= new_i /\ new_i < h) /\ (0 <= new_j /\ new_j < w)
             THEN <<<<new_i, new_j>>>> \o rest
             ELSE rest

neighborsThroughWalls(c, w, h, row, col, shuffle) ==
    LET ns == NeighborsThroughWalls(c, w, h, row, col, 1)
    IN  IF shuffle THEN Shuffles(ns) ELSE {ns}

\* a neighbors that stops after three of the four directions
neighborsThreeDirections(c, w, h, row, col, shuffle) ==
    LET ns == NeighborsFrom(c, w, h, row, col, 2)
    IN  IF shuffle THEN Shuffles(ns) ELSE {ns}

\* the lists neighbors(row, col, shuffle=...) may return
neighbors(c, w, h, row, col, shuffle) ==
    LET ns == NeighborsFrom(c, w, h, row, col, 1)
    IN  IF shuffle THEN Shuffles(ns) ELSE {ns}

Heaps == {"greedy_bfs", "greedy_random_bfs"}
Algorithms == {"bfs", "dfs"} \cup Heaps

\* PrioritizedNeighbor is ordered by (distance, position)
PrioritizedNeighbor(distance, position) ==
    [distance |-> distance, position |-> position]

Before(a, b) ==
    \/ a.distance < b.distance
    \/ /\ a.distance = b.distance
       /\ \/ a.position[1] < b.position[1]
          \/ (a.position[1] = b.position[1] /\ a.position[2] < b.position[2])

\* heapq keeps the smallest item first; the heap is held in ascending order,
\* so that heappop removes its head
RECURSIVE heappush(_, _)
heappush(heap, item) ==
    IF heap = <<>> THEN <<item>>
    ELSE IF Before(item, Head(heap)) THEN <<item>> \o heap
    ELSE <<Head(heap)>> \o heappush(Tail(heap), item)

\* list.pop(i), i counted from 1
RemoveAt(list, i) ==
    [k \in 1 .. Len(list) - 1 |-> IF k < i THEN list[k] ELSE list[k + 1]]

\* the frontier a search starts with
FirstList(a, cur) == IF a \in Heaps THEN <<>> ELSE <<cur>>

FirstHeap(a, cur, gl) ==
    IF a \in Heaps
    THEN <<PrioritizedNeighbor(manhattan_distance(cur, gl), cur)>>
    ELSE <<>>

\* the indices of to_visit the next pop may take
PopChoices(a, frontier, stepno) ==
    IF a = "greedy_bfs" THEN {1}
    ELSE IF a = "greedy_random_bfs"
    THEN (IF stepno > RandomSteps THEN {1} ELSE DOMAIN frontier)
    ELSE {Len(frontier)}

\* a loop that queues every neighbour, seen or not
RECURSIVE QueueEveryNeighbor(_, _, _, _, _, _, _)
QueueEveryNeighbor(a, ns, k, seen, frontier, heap, gl) ==
    IF k > Len(ns)
    THEN [visited |-> seen, to_visit |-> frontier, to_visit_heap |-> heap]
    ELSE QueueEveryNeighbor(a, ns, k + 1, seen \cup {ns[k]},
            CASE a = "bfs" -> <<ns[k]>> \o frontier
              [] a = "dfs" -> Append(frontier, ns[k])
              [] OTHER -> frontier,
            IF a \in Heaps
            THEN heappush(heap, PrioritizedNeighbor(manhattan_distance(ns[k], gl), ns[k]))
            ELSE heap,
            gl)

\* the loop "for neighbor in ns: if neighbor not in visited: ..." from its
\* k-th neighbour on: the visited set and the frontier after it
RECURSIVE QueueNeighbors(_, _, _, _, _, _, _)
QueueNeighbors(a, ns, k, seen, frontier, heap, gl) ==
    IF k > Len(ns)
    THEN [visited |-> seen, to_visit |-> frontier, to_visit_heap |-> heap]
    ELSE IF ns[k] \in seen
    THEN QueueNeighbors(a, ns, k + 1, seen, frontier, heap, gl)
    ELSE QueueNeighbors(a, ns, k + 1, seen \cup {ns[k]},
            CASE a = "bfs" -> <<ns[k]>> \o frontier
              [] a = "dfs" -> Append(frontier, ns[k])
              [] OTHER -> frontier,
            IF a \in Heaps
            THEN heappush(heap, PrioritizedNeighbor(manhattan_distance(ns[k], gl), ns[k]))
            ELSE heap,
            gl)

\* a call of one of find_path_bfs, find_path_dfs, find_path_greedy_bfs and
\* find_path_greedy_semirandom_bfs enters its loop
BeginSearch(a, rn) ==
    /\ pc' = "search"
    /\ alg' = a
    /\ random_neighbor' = rn
    /\ to_visit' = FirstList(a, current)
    /\ to_visit_heap' = FirstHeap(a, current, goal)
    /\ visited' = {}
    /\ path' = <<>>
    /\ steps' = 0
    /\ result' = NoResult

\* the search returns value (a path, or None)
Return(value) ==
    /\ pc' = IF gen_op = "none" THEN "idle" ELSE "returned"
    /\ alg' = "none"
    /\ random_neighbor' = TRUE
    /\ to_visit' = <<>>
    /\ to_visit_heap' = <<>>
    /\ visited' = {}
    /\ path' = <<>>
    /\ steps' = 0
    /\ result' = [alg |-> alg, path |-> value]
    /\ bfs_len' = IF alg = "bfs" THEN Len(value) ELSE bfs_len

\* one test of "while to_visit" and, when it holds, one run of the loop body
LoopBody ==
    LET frontier == IF alg \in Heaps THEN to_visit_heap ELSE to_visit
    IN
    IF frontier = <<>>
    THEN Return(None)
    ELSE \E i \in PopChoices(alg, frontier, steps + 1) :
           LET cur == IF alg \in Heaps THEN to_visit_heap[i].position ELSE to_visit[i]
               rest == IF alg \in Heaps THEN to_visit ELSE RemoveAt(to_visit, i)
               rest_heap == IF alg \in Heaps THEN RemoveAt(to_visit_heap, i)
                            ELSE to_visit_heap
               path1 == Append(path, cur)
           IN  IF cur = goal
               THEN Return(path1)
               ELSE \E ns \in neighbors(cells, width, height, cur[1], cur[2],
                                        random_neighbor) :
                      LET q == QueueNeighbors(alg, ns, 1, visited, rest, rest_heap, goal)
                      IN  /\ to_visit' = q.to_visit
                          /\ to_visit_heap' = q.to_visit_heap
                          /\ visited' = q.visited
                          /\ path' = path1
                          /\ steps' = IF alg = "greedy_random_bfs"
                                      THEN steps + 1 ELSE 0
                          /\ UNCHANGED <<pc, alg, random_neighbor, result, bfs_len>>

FindPath(a, rn) ==
    /\ pc = "idle"
    /\ BeginSearch(a, rn)
    /\ UNCHANGED <<bfs_len, gridVars, callVars, genVars, graphVars, queryVars, appVars>>

SearchStep ==
    /\ pc = "search"
    /\ LoopBody
    /\ UNCHANGED <<gridVars, callVars, genVars, graphVars, queryVars, appVars>>

\* the constructor called with a start and a goal
ConstructWithEnds(dims, longest) ==
    \E d \in dims :
      \E ip \in Coords(d[1], d[2]), gp \in Coords(d[1], d[2]),
         ina \in SeqsUpTo(Coords(d[1], d[2]), longest) :
        LET g == GridInit(d[1], d[2], ip, gp, ina)
        IN  /\ width = d[1]
            /\ height = d[2]
            /\ cells = g.cells
            /\ current = g.current
            /\ goal = g.goal

InitSearch ==
    /\ \/ ConstructWithEnds(SearchDims, MaxInactives)
       \/ ConstructWithEnds(LongDims, 0)
    /\ err = "none"
    /\ inb = TRUE
    /\ calls = 0
    /\ SearchIdle
    /\ NoGraph

NextSearch ==
    \/ \E a \in Algorithms \ {"dfs"} : FindPath(a, TRUE)
    \/ \E rn \in BOOLEAN : FindPath("dfs", rn)
    \/ SearchStep

SpecSearch == InitSearch /\ [][NextSearch]_vars

InitSearchFair ==
    /\ \/ ConstructWithEnds(SmallDims, MaxInactives)
       \/ ConstructWithEnds(OpenDims, 0)
    /\ err = "none"
    /\ inb = TRUE
    /\ calls = 0
    /\ SearchIdle
    /\ NoGraph

\* a search that was called runs on until it returns: the program has one
\* thread, and nothing suspends a loop
SpecSearchFair == InitSearchFair /\ [][NextSearch]_vars /\ WF_vars(SearchStep)

---------------------------------------------------------------------------
(* What the claims about the searches are measured against: reachability   *)
(* and distance in the grid, defined without the searches' code.           *)

StateAt(p) == cells[p[2]][p[1]].state

Adjacent(p, q) == Abs(p[1] - q[1]) + Abs(p[2] - q[2]) = 1

\* R and the non-Inactive cells of the grid next to a coordinate of R
Grow(R) ==
    R \cup {q \in Coords(width, height) :
               StateAt(q) # "INACTIVE" /\ \E p \in R : Adjacent(p, q)}

RECURSIVE Closure(_)
Closure(R) ==
    LET G == Grow(R)
    IN  IF G = R THEN R ELSE Closure(G)

GoalReachable == goal \in Closure({current})

\* the number of steps of a shortest route from current to target through
\* non-Inactive cells, -1 if there is none
RECURSIVE StepsTo(_, _, _)
StepsTo(R, k, target) ==
    IF target \in R THEN k
    ELSE LET G == Grow(R)
         IN  IF G = R THEN -1 ELSE StepsTo(G, k + 1, target)

Distance(target) == StepsTo({current}, 0, target)

Range(list) == {list[k] : k \in DOMAIN list}

Finished == pc = "idle" /\ result.alg # "none"

---------------------------------------------------------------------------
(* Claims about the searches *)

\* C1: when goal is reachable from current through non-Inactive neighbours,
\* whichever of the four searches finished returned a sequence, not None,
\* that starts with current and ends with goal.
C1_PathFromCurrentToGoal ==
    (Finished /\ GoalReachable) =>
        /\ result.path # None
        /\ Head(result.path) = current
        /\ result.path[Len(result.path)] = goal

\* C1 witness: the hybrid search left its random phase and still returned a
\* sequence from current to goal.
C1_Witness ==
    /\ Finished /\ GoalReachable
    /\ result.alg = "greedy_random_bfs"
    /\ Len(result.path) > RandomSteps
    /\ Head(result.path) = current
    /\ result.path[Len(result.path)] = goal
    /\ current # goal

\* the loop of a running search cannot run longer than this: every pop
\* lengthens path by one, and path and frontier together never hold more
\* than one entry per coordinate plus a second entry for the start
LoopBounded ==
    pc = "search" =>
        Len(path) + Len(to_visit) + Len(to_visit_heap)
            <= Cardinality(Coords(width, height)) + 1

\* C2: every search terminates (its loop is bounded, every run of the loop
\* body returns or lengthens path by one, and a loop once entered is left),
\* and it returns None exactly when goal is not reachable from current
\* through non-Inactive cells.
C2_TerminatesNoneIffUnreachable ==
    /\ [](LoopBounded)
    /\ [][pc = "search" => (pc' = "idle" \/ Len(path') = Len(path) + 1)]_vars
    /\ [](Finished => ((result.path = None) <=> ~GoalReachable))
    /\ (pc = "search") ~> (pc = "idle")

\* C2 witness: a search on a grid with blocked cells ran out of frontier after
\* several pops and returned None.
C2_Witness ==
    /\ Finished /\ ~GoalReachable
    /\ result.path = None
    /\ Cardinality(Closure({current})) >= 3

\* C8 as claimed: the sequence of the exhaustive search is no longer than the
\* sequence another search returned on the same grid.
C8_BfsShortest ==
    (Finished /\ result.alg # "bfs" /\ result.path # None /\ bfs_len > 0) =>
        bfs_len <= Len(result.path)

\* C8 as amended: a returned sequence lists the cells visited, so it has at
\* least as many coordinates as a shortest route has (its steps plus one),
\* for every search; the exhaustive search's sequence moreover holds every
\* cell that is nearer to current than goal is.
C8_NoShorterThanShortestRoute ==
    (Finished /\ result.path # None) =>
        LET d == Distance(goal)
        IN  /\ Len(result.path) >= d + 1
            /\ result.alg = "bfs" =>
                  \A q \in Coords(width, height) \ Range(result.path) :
                      LET dq == Distance(q) IN dq < 0 \/ dq >= d

\* C8 witness: the exhaustive search returned more coordinates than a later
\* search on the same grid.
C8_Witness ==
    /\ Finished /\ result.alg = "greedy_bfs" /\ result.path # None
    /\ bfs_len > Len(result.path)
    /\ Len(result.path) = Distance(goal) + 1

---------------------------------------------------------------------------
(* The obstacle generator: GridGraph.add_n_inactives and make_n_paths *)

\* a candidate list that leaves the witness cells in
AllPossibleUnprotected(c, w, h, witness) ==
    {q \in Coords(w, h) :
        at(c, w, h, q[1], q[2]).state \notin {"CURRENT", "GOAL", "INACTIVE"}}

\* a candidate list whose rows start at 1
AllPossibleFromRowOne(c, w, h, witness) ==
    {q \in (1 .. h - 1) \X (0 .. w - 1) :
        /\ q \notin witness
        /\ at(c, w, h, q[1], q[2]).state \notin {"CURRENT", "GOAL", "INACTIVE"}}

\* the list all_possibe of both generators, as the set of its coordinates
all_possibe(c, w, h, witness) ==
    {q \in (0 .. h - 1) \X (0 .. w - 1) :
        /\ q \notin witness
        /\ at(c, w, h, q[1], q[2]).state \notin {"CURRENT", "GOAL", "INACTIVE"}}

\* random.sample(population, k): every choice of k of its members
sample(population, k) == {S \in SUBSET population : Cardinality(S) = k}

\* "for i, j in ...: self.at(i, j).change_state(CellState.INACTIVE)"
Block(c, w, h, S) ==
    [col \in 0 .. w - 1 |->
        [row \in 0 .. h - 1 |->
            IF <<row, col>> \in S
            THEN change_state(c[col][row], "INACTIVE")
            ELSE c[col][row]]]

\* the generator call returns or raises: no search and no call is running
GenEnds(done, witness, e) ==
    /\ pc' = "idle"
    /\ gen_op' = "none"
    /\ gen_left' = 0
    /\ gen_path' = witness
    /\ gen_done' = done
    /\ err' = e
    /\ result' = NoResult
    /\ UNCHANGED <<alg, random_neighbor, to_visit, to_visit_heap, visited, path,
                   steps, bfs_len>>

\* add_n_inactives(n), called on the grid as constructed, up to its call of
\* the hybrid search
AddNInactives(n) ==
    /\ pc = "idle"
    /\ calls = 0
    /\ calls' = calls + 1
    /\ gen_op' = "add_n_inactives"
    /\ gen_n' = n
    /\ gen_left' = 0
    /\ gen_path' = {}
    /\ gen_before' = cells
    /\ gen_done' = "none"
    /\ err' = "none"
    /\ BeginSearch("greedy_random_bfs", TRUE)
    /\ UNCHANGED <<bfs_len, gridVars, inb, graphVars, queryVars, appVars>>

\* the rest of make_n_paths once its searches are done
MakeBlocks(witness) ==
    /\ cells' = Block(cells, width, height, all_possibe(cells, width, height, witness))
    /\ GenEnds("make_n_paths", witness, "none")

\* make_n_paths(n), called on the grid as constructed, up to its first call of
\* the hybrid search, or to its end when n is 0
MakeNPaths(n) ==
    /\ pc = "idle"
    /\ calls = 0
    /\ calls' = calls + 1
    /\ gen_n' = n
    /\ gen_before' = cells
    /\ UNCHANGED <<width, height, current, goal, inb, graphVars, queryVars, appVars>>
    /\ IF n = 0
       THEN MakeBlocks({})
       ELSE /\ gen_op' = "make_n_paths"
            /\ gen_left' = n
            /\ gen_path' = {}
            /\ gen_done' = "none"
            /\ err' = "none"
            /\ BeginSearch("greedy_random_bfs", TRUE)
            /\ UNCHANGED <<bfs_len, cells>>

\* the generator goes on with what its search returned; set(None) and
\* path.update(None) raise TypeError
GenContinue ==
    /\ pc = "returned"
    /\ UNCHANGED <<width, height, current, goal, inb, calls, gen_n, gen_before, graphVars, queryVars, appVars>>
    /\ IF result.path = None
       THEN /\ GenEnds("none", gen_path, "TypeError")
            /\ UNCHANGED cells
       ELSE IF gen_op = "add_n_inactives"
       THEN LET witness == Range(result.path)
                candidates == all_possibe(cells, width, height, witness)
                n == IF gen_n > Cardinality(candidates)
                     THEN Cardinality(candidates) ELSE gen_n
            IN  \E inactives_set \in sample(candidates, n) :
                  /\ cells' = Block(cells, width, height, inactives_set)
                  /\ GenEnds("add_n_inactives", witness, "none")
       ELSE LET witness == gen_path \cup Range(result.path)
            IN  IF gen_left > 1
                THEN /\ gen_left' = gen_left - 1
                     /\ gen_path' = witness
                     /\ BeginSearch("greedy_random_bfs", TRUE)
                     /\ UNCHANGED <<bfs_len, cells, gen_op, gen_done, err>>
                ELSE MakeBlocks(witness)

InitGen ==
    /\ \/ ConstructWithEnds(SmallDims, MaxInactives)
       \/ ConstructWithEnds(OpenDims, 0)
    /\ err = "none"
    /\ inb = TRUE
    /\ calls = 0
    /\ SearchIdle
    /\ NoGraph

NextGen ==
    \/ \E n \in 0 .. MaxN : AddNInactives(n)
    \/ \E n \in 0 .. MaxN : MakeNPaths(n)
    \/ GenContinue
    \/ \E a \in Algorithms :
          gen_done # "none" /\ result.alg = "none" /\ FindPath(a, TRUE)
    \/ SearchStep

\* as in grid_search.py's main(): the grid is constructed, a generator is run
\* on it, and then one of the searches is
SpecGen == InitGen /\ [][NextGen]_vars

---------------------------------------------------------------------------
(* Claims about the generators *)

\* the cells of S are as they were when the last generator call began
Untouched(S) == \A q \in S : cells[q[2]][q[1]] = gen_before[q[2]][q[1]]

\* C6: after add_n_inactives(n) returned (so goal was reachable when it was
\* called), no cell of the witness sequence was changed, goal is still
\* reachable from current, and a search run afterwards returns a sequence.
C6_AddKeepsWitness ==
    (pc = "idle" /\ gen_done = "add_n_inactives") =>
        /\ Untouched(gen_path)
        /\ GoalReachable
        /\ result.alg # "none" => result.path # None

\* C6 witness: add_n_inactives blocked two cells and a search run afterwards
\* found the goal.
C6_Witness ==
    /\ pc = "idle" /\ gen_done = "add_n_inactives" /\ gen_n = 2
    /\ Cardinality({q \in Coords(width, height) :
                       cells[q[2]][q[1]] # gen_before[q[2]][q[1]]}) = 2
    /\ result.alg = "dfs" /\ result.path # None
    /\ current # goal

\* C7: after make_n_paths(n) with n >= 1 returned, every cell off the witness
\* sequences that is not Current or Goal is Inactive, every cell on them is
\* as it was, and goal is still reachable from current.
C7_MakeBlocksTheRest ==
    (pc = "idle" /\ gen_done = "make_n_paths" /\ gen_n >= 1) =>
        /\ \A q \in Coords(width, height) \ gen_path :
              StateAt(q) \in {"CURRENT", "GOAL", "INACTIVE"}
        /\ Untouched(gen_path)
        /\ GoalReachable

\* C7 witness: make_n_paths(2) kept the cells of two witness sequences and
\* blocked a cell that was not blocked before.
C7_Witness ==
    /\ pc = "idle" /\ gen_done = "make_n_paths" /\ gen_n = 2
    /\ \E q \in Coords(width, height) \ gen_path :
          /\ StateAt(q) = "INACTIVE"
          /\ gen_before[q[2]][q[1]].state # "INACTIVE"
    /\ Cardinality(gen_path) >= 3
    /\ GoalReachable

---------------------------------------------------------------------------
(* DirectedGraph, src/lib/directed_graph.py.  A node is a number of        *)
(* 0 .. n - 1; the adjacency list maps a node to the list of its           *)
(* successors, in which a successor may be repeated.                       *)

\* most nodes and longest edge list handed to from_edge_list
MaxNodes == 3
MaxEdges == 3

\* the graph of main.py's cycles(), and the edge that closes a cycle in it
ExampleNodes == 5
ExampleEdges == <<<<0, 1>>, <<0, 2>>, <<1, 3>>, <<2, 3>>, <<1, 4>>, <<3, 4>>>>
CycleEdge == <<3, 0>>

\* "for source, dest in edges: adjacency_list[source].append(dest)"
RECURSIVE AppendEdges(_, _)
AppendEdges(adj, edges) ==
    IF edges = <<>> THEN adj
    ELSE AppendEdges(
             [adj EXCEPT ![Head(edges)[1]] = Append(@, Head(edges)[2])],
             Tail(edges))

from_edge_list(n, edges) ==
    [nodes |-> 0 .. n - 1,
     adjacency_list |-> AppendEdges([node \in 0 .. n - 1 |-> <<>>], edges)]

\* the loop "while to_visit" of has_cycles for the starting node: TRUE when
\* it returns True, FALSE when it runs out of to_visit
RECURSIVE Walk(_, _, _, _)
Walk(adj, node, tv, current_path) ==
    IF tv = <<>> THEN FALSE
    ELSE LET cur == tv[Len(tv)]
         IN  IF cur = node THEN TRUE
             ELSE Walk(adj, node, SubSeq(tv, 1, Len(tv) - 1) \o adj[cur],
                       current_path \cup {cur})

\* "for node in self.nodes: ... return True" and "return False" after it
has_cycles(ns, adj) == \E node \in ns : Walk(adj, node, <<node>>, {})

\* the inverse adjacency topological_order computes first
InflowList(ns, adj) ==
    [d \in ns |-> {s \in ns : \E k \in DOMAIN adj[s] : adj[s][k] = d}]

\* "for neighbor in self.adjacency_list[node_0_inflow]:
\*      inflow_list[neighbor].remove(node_0_inflow)";
\* dict lookup of a deleted key and set.remove of an absent member raise
\* KeyError
RECURSIVE RemoveInflow(_, _, _)
RemoveInflow(inflow_list, node, nbrs) ==
    IF nbrs = <<>> THEN [raised |-> FALSE, inflow_list |-> inflow_list]
    ELSE LET neighbor == Head(nbrs)
         IN  IF neighbor \notin DOMAIN inflow_list
             THEN [raised |-> TRUE, inflow_list |-> inflow_list]
             ELSE IF node \notin inflow_list[neighbor]
             THEN [raised |-> TRUE, inflow_list |-> inflow_list]
             ELSE RemoveInflow([inflow_list EXCEPT ![neighbor] = @ \ {node}],
                               node, Tail(nbrs))

\* the loop "while inflow_list" of topological_order: every way it can end.
\* The dict is scanned in an order the language does not fix for a set of
\* nodes, so any node with an empty inflow set may be the one found.
RECURSIVE TopoLoop(_, _, _)
TopoLoop(adj, inflow_list, ordering) ==
    IF DOMAIN inflow_list = {}
    THEN {[status |-> "returned", ordering |-> ordering]}
    ELSE LET zero == {node \in DOMAIN inflow_list : inflow_list[node] = {}}
         IN  IF zero = {}
             THEN {[status |-> "Graph has cycles", ordering |-> None]}
             ELSE UNION {
                    LET rest == [d \in DOMAIN inflow_list \ {node_0_inflow}
                                   |-> inflow_list[d]]
                        r == RemoveInflow(rest, node_0_inflow, adj[node_0_inflow])
                    IN  IF r.raised
                        THEN {[status |-> "KeyError", ordering |-> None]}
                        ELSE TopoLoop(adj, r.inflow_list,
                                      Append(ordering, node_0_inflow))
                    : node_0_inflow \in zero}

topological_order(ns, adj) == TopoLoop(adj, InflowList(ns, adj), <<>>)

\* a graph built by from_edge_list from edges between its nodes
Built(n, edges) ==
    LET g == from_edge_list(n, edges)
    IN  /\ nodes = g.nodes
        /\ adjacency_list = g.adjacency_list

InitGraph ==
    /\ \/ \E n \in 0 .. MaxNodes :
            \E edges \in SeqsUpTo((0 .. n - 1) \X (0 .. n - 1), MaxEdges) :
              Built(n, edges)
       \/ Built(ExampleNodes, ExampleEdges)
       \/ Built(ExampleNodes, Append(ExampleEdges, CycleEdge))
    /\ hc = "none"
    /\ topo = NoTopo
    /\ directed = TRUE
    /\ NoQuery
    /\ width = 0
    /\ height = 0
    /\ cells = <<>>
    /\ current = None
    /\ goal = None
    /\ err = "none"
    /\ inb = TRUE
    /\ calls = 0
    /\ SearchIdle

HasCycles ==
    /\ hc = "none"
    /\ hc' = IF has_cycles(nodes, adjacency_list) THEN "True" ELSE "False"
    /\ UNCHANGED <<nodes, adjacency_list, topo, gridVars, callVars, searchVars, genVars, queryVars, appVars>>

TopologicalOrder ==
    /\ topo = NoTopo
    /\ \E r \in topological_order(nodes, adjacency_list) : topo' = r
    /\ UNCHANGED <<nodes, adjacency_list, hc, gridVars, callVars, searchVars, genVars, queryVars, appVars>>

NextGraph == HasCycles \/ TopologicalOrder

SpecGraph == InitGraph /\ [][NextGraph]_vars

---------------------------------------------------------------------------
(* What the claims about the directed graph are measured against: the      *)
(* edges of the graph and the nodes a node leads to, defined without       *)
(* has_cycles and topological_order.                                       *)

Edges ==
    UNION {{<<s, adjacency_list[s][k]>> : k \in DOMAIN adjacency_list[s]} : s \in nodes}

\* R and the nodes an edge leads to from a node of R
Follow(R) == R \cup {e[2] : e \in {f \in Edges : f[1] \in R}}

RECURSIVE Descendants(_)
Descendants(R) ==
    LET G == Follow(R)
    IN  IF G = R THEN R ELSE Descendants(G)

\* some node leads back to itself along one edge or more
HasDirectedCycle ==
    \E v \in nodes : v \in Descendants({e[2] : e \in {f \in Edges : f[1] = v}})

\* the place of node v in the list order
PlaceOf(order, v) == CHOOSE k \in DOMAIN order : order[k] = v

---------------------------------------------------------------------------
(* Claims about the directed graph *)

\* C3 as claimed: has_cycles() returns True if and only if the graph contains
\* a directed cycle.
C3_HasCyclesExact ==
    hc # "none" => ((hc = "True") <=> HasDirectedCycle)

\* C4 as claimed: on an acyclic graph, whose edge list may repeat an edge,
\* topological_order() returns without error a list that holds every node
\* exactly once and in which the source of every edge comes before its
\* destination.
C4_TopoSortsAcyclic ==
    (topo.status # "none" /\ ~HasDirectedCycle) =>
        /\ topo.status = "returned"
        /\ Len(topo.ordering) = Cardinality(nodes)
        /\ Range(topo.ordering) = nodes
        /\ \A e \in Edges : PlaceOf(topo.ordering, e[1]) < PlaceOf(topo.ordering, e[2])

\* C5 as claimed: on a graph that contains a directed cycle, self-loops
\* included, topological_order() fails with the cycle error and returns no
\* ordering.
C5_CycleError ==
    (topo.status # "none" /\ HasDirectedCycle) => topo.status = "Graph has cycles"

---------------------------------------------------------------------------
(* MyGame, src/grid_search.py: compute_path runs a search and asks for the  *)
(* cost of what it returned, on_update replays the path with set_current,   *)
(* a click in edit mode flips a cell, and the S key computes the path anew  *)
(* when a cell was flipped.                                                *)

\* the grids the game is run on: <<width, height>>
AppDims == {<<2, 2>>, <<3, 1>>}

\* Cell.flip_active
flip_active(cell) ==
    IF cell.state = "INACTIVE"
    THEN change_state(cell, "ACTIVE")
    ELSE change_state(cell, "INACTIVE")

\* Cell.cell_cost raises for every state but these four
CostRaises(cell) == cell.state \notin {"ACTIVE", "CURRENT", "GOAL", "SLOW"}

cell_cost(cell) == IF cell.state = "SLOW" THEN 5 ELSE 1

RECURSIVE SumCosts(_, _, _, _)
SumCosts(c, w, h, p) ==
    IF p = <<>> THEN 0
    ELSE cell_cost(at(c, w, h, Head(p)[1], Head(p)[2])) + SumCosts(c, w, h, Tail(p))

\* GridGraph.path_cost: how the call ends, with the states of the cells of p
path_cost(c, w, h, p) ==
    LET states == [k \in DOMAIN p |-> at(c, w, h, p[k][1], p[k][2]).state]
    IN  IF \E k \in DOMAIN p : CostRaises(at(c, w, h, p[k][1], p[k][2]))
        THEN [status |-> "Exception", value |-> 0, path |-> p, states |-> states]
        ELSE [status |-> "returned", value |-> SumCosts(c, w, h, p), path |-> p,
              states |-> states]

\* compute_path up to the loop of its search; at the start of the game, and
\* on the S key when a cell was flipped
ComputePath(a) ==
    /\ pc = "idle"
    /\ result.alg = "none" \/ last.op = "flip_active"
    /\ BeginSearch(a, TRUE)
    /\ step' = 0
    /\ cost' = NoCost
    /\ last' = NoCall
    /\ UNCHANGED <<bfs_len, loaded, gridVars, callVars, genVars, graphVars, queryVars>>

\* the rest of compute_path when the search returned a sequence
PathCost ==
    /\ Finished
    /\ result.path # None
    /\ cost.status = "none"
    /\ cost' = path_cost(cells, width, height, result.path)
    /\ UNCHANGED <<step, loaded, last, gridVars, callVars, searchVars, genVars,
                   graphVars, queryVars>>

\* on_update with should_step set: one step of the replay
Replay ==
    /\ Finished
    /\ result.path # None
    /\ cost.status # "none"
    /\ step < Len(result.path)
    /\ calls < MaxCalls
    /\ LET t == result.path[step + 1]
           r == set_current(cells, width, height, current, t[1], t[2])
       IN  /\ cells' = r.cells
           /\ current' = r.current
           /\ err' = r.err
           /\ last' = [op |-> "set_current", coords |-> <<t>>]
    /\ step' = step + 1
    /\ calls' = calls + 1
    /\ UNCHANGED <<width, height, goal, inb, cost, loaded, searchVars, genVars,
                   graphVars, queryVars>>

\* on_mouse_press in edit mode on the tile (row, col)
FlipActive(row, col) ==
    /\ pc = "idle"
    /\ result.alg # "none"
    /\ calls < MaxCalls
    /\ calls' = calls + 1
    /\ cells' = SetAt(cells, width, height, row, col,
                      flip_active(at(cells, width, height, row, col)))
    /\ last' = [op |-> "flip_active", coords |-> <<<<row, col>>>>]
    /\ UNCHANGED <<width, height, current, goal, err, inb, step, cost, loaded,
                   searchVars, genVars, graphVars, queryVars>>

InitApp ==
    /\ ConstructWithEnds(AppDims, MaxInactives)
    /\ err = "none"
    /\ inb = TRUE
    /\ calls = 0
    /\ SearchIdle
    /\ NoGraph

NextApp ==
    \/ \E a \in Algorithms : ComputePath(a)
    \/ SearchStep
    \/ PathCost
    \/ Replay
    \/ \E t \in Targets : FlipActive(t[1], t[2])

SpecApp == InitApp /\ [][NextApp]_vars

\* C11 as claimed: path_cost of a sequence a search returned, on a grid reached
\* through the constructor, replay and flip_active, returns a number; no cell
\* of the sequence is Inactive; the number is at least the length of the
\* sequence, and equal to it exactly when no cell of the sequence is Slow.
C11_PathCostAtLeastLen ==
    cost.status # "none" =>
        /\ cost.status = "returned"
        /\ \A k \in DOMAIN cost.states : cost.states[k] # "INACTIVE"
        /\ cost.value >= Len(cost.path)
        /\ (cost.value = Len(cost.path)) <=>
              (\A k \in DOMAIN cost.states : cost.states[k] # "SLOW")

---------------------------------------------------------------------------
(* The constructor, at and set_current called with any coordinate, inside   *)
(* the grid or not                                                         *)

\* the grids the calls are made on: <<width, height>>
BoundsDims == {<<2, 1>>, <<1, 2>>}

\* longest blocked list handed to the constructor here
MaxBlocked == 1

\* most calls of at and set_current made on one grid here
MaxOutside == 2

\* the coordinates the calls are made with: the grid, and what lies up to
\* one list length and one more before it and one after it
WideCoords(w, h) == (-(h + 1) .. h) \X (-(w + 1) .. w)

\* the coordinates among a call's arguments
Given(position) == IF position = None THEN <<>> ELSE <<position>>

\* GridGraph.__init__ called with any coordinates: an exception leaves no grid
New(initial_position, goal_position, inactives) ==
    LET coords == Given(initial_position) \o Given(goal_position) \o inactives
        raises == \E k \in DOMAIN coords :
                     AtRaises(width, height, coords[k][1], coords[k][2])
        g == GridInit(width, height, initial_position, goal_position, inactives)
    IN  /\ cells = <<>>
        /\ last = NoCall
        /\ last' = [op |-> "GridGraph", coords |-> coords]
        /\ inb' = \A k \in DOMAIN coords : InBounds(width, height, coords[k])
        /\ IF raises
           THEN /\ err' = "IndexError"
                /\ UNCHANGED <<cells, current, goal>>
           ELSE /\ err' = "none"
                /\ cells' = g.cells
                /\ current' = g.current
                /\ goal' = g.goal
        /\ UNCHANGED <<width, height, calls, step, cost, loaded, searchVars, genVars,
                       graphVars, queryVars>>

\* GridGraph.at(row, col), called from outside
At(row, col) ==
    /\ cells # <<>>
    /\ calls < MaxOutside
    /\ calls' = calls + 1
    /\ err' = IF AtRaises(width, height, row, col) THEN "IndexError" ELSE "none"
    /\ last' = [op |-> "at", coords |-> <<<<row, col>>>>]
    /\ inb' = (inb /\ InBounds(width, height, <<row, col>>))
    /\ UNCHANGED <<gridVars, step, cost, loaded, searchVars, genVars, graphVars,
                   queryVars>>

\* GridGraph.set_current(row, col), called from outside
SetCurrentAt(row, col) ==
    LET r == set_current(cells, width, height, current, row, col)
    IN  /\ cells # <<>>
        /\ calls < MaxOutside
        /\ calls' = calls + 1
        /\ cells' = r.cells
        /\ current' = r.current
        /\ err' = r.err
        /\ last' = [op |-> "set_current", coords |-> <<<<row, col>>>>]
        /\ inb' = (inb /\ InBounds(width, height, <<row, col>>))
        /\ UNCHANGED <<width, height, goal, step, cost, loaded, searchVars, genVars,
                       graphVars, queryVars>>

\* no grid is built yet
InitBounds ==
    /\ \E d \in BoundsDims : width = d[1] /\ height = d[2]
    /\ cells = <<>>
    /\ current = None
    /\ goal = None
    /\ err = "none"
    /\ inb = TRUE
    /\ calls = 0
    /\ SearchIdle
    /\ NoGraph

NextBounds ==
    \/ /\ cells = <<>>
       /\ last = NoCall
       /\ \E ip \in WideCoords(width, height) \cup {None},
             gp \in WideCoords(width, height) \cup {None},
             ina \in SeqsUpTo(WideCoords(width, height), MaxBlocked) :
            New(ip, gp, ina)
    \/ \E t \in WideCoords(width, height) : At(t[1], t[2])
    \/ \E t \in WideCoords(width, height) : SetCurrentAt(t[1], t[2])

SpecBounds == InitBounds /\ [][NextBounds]_vars

\* C12 as claimed: the constructor, at and set_current fail with a bounds
\* error whenever one of the coordinates they are given does not satisfy
\* 0 <= row < height and 0 <= col < width, negative coordinates included.
C12_BoundsErrors ==
    (/\ last.op \in {"GridGraph", "at", "set_current"}
     /\ \E k \in DOMAIN last.coords : ~InBounds(width, height, last.coords[k]))
        => err = "IndexError"

---------------------------------------------------------------------------
(* GridGraph.to_dict and from_dict                                         *)

\* the grids that are saved and loaded: <<width, height>>
RoundDims == {<<2, 2>>, <<3, 1>>}

\* and those built with or without a start and a goal
NoEndDims == {<<2, 1>>}

\* most calls made on a grid before it is saved
MaxEdits == 2

\* a from_dict that leaves the cells as the constructor made them
FromDictFresh(data) ==
    LET g == GridInit(data.width, data.height, data.current, data.goal, <<>>)
    IN  [status |-> "loaded", width |-> data.width, height |-> data.height,
         cells |-> g.cells, current |-> g.current, goal |-> g.goal]

\* the dictionary of the grid: the names of the states, column by column
to_dict(c, w, h, cur, gl) ==
    [width |-> w,
     height |-> h,
     cells |-> [col \in 0 .. w - 1 |-> [row \in 0 .. h - 1 |-> c[col][row].state]],
     current |-> cur,
     goal |-> gl]

\* the grid built from a dictionary: the constructor, called with the saved
\* positions, then the state of every cell set from its name
from_dict(data) ==
    LET coords == Given(data.current) \o Given(data.goal)
        g == GridInit(data.width, data.height, data.current, data.goal, <<>>)
    IN  IF \E k \in DOMAIN coords :
              AtRaises(data.width, data.height, coords[k][1], coords[k][2])
        THEN [NoLoad EXCEPT !.status = "IndexError"]
        ELSE [status |-> "loaded",
              width |-> data.width,
              height |-> data.height,
              cells |-> [col_idx \in DOMAIN data.cells |->
                           [row_idx \in DOMAIN data.cells[col_idx] |->
                              [g.cells[col_idx][row_idx] EXCEPT
                                  !.state = data.cells[col_idx][row_idx]]]],
              current |-> g.current,
              goal |-> g.goal]

\* GridGraph.from_dict(g.to_dict())
RoundTrip ==
    /\ pc = "idle"
    /\ loaded = NoLoad
    /\ loaded' = from_dict(to_dict(cells, width, height, current, goal))
    /\ UNCHANGED <<step, cost, last, gridVars, callVars, searchVars, genVars,
                   graphVars, queryVars>>

\* self.at(row, col).flip_active()
FlipAt(row, col) ==
    /\ pc = "idle"
    /\ calls < MaxCalls
    /\ calls' = calls + 1
    /\ cells' = SetAt(cells, width, height, row, col,
                      flip_active(at(cells, width, height, row, col)))
    /\ UNCHANGED <<width, height, current, goal, err, inb, appVars, searchVars,
                   genVars, graphVars, queryVars>>

InitRound ==
    /\ \/ ConstructWithEnds(RoundDims, MaxBlocked)
       \/ Construct(NoEndDims)
    /\ err = "none"
    /\ inb = TRUE
    /\ calls = 0
    /\ SearchIdle
    /\ NoGraph

NextRound ==
    \/ \E t \in Targets :
          pc = "idle" /\ loaded = NoLoad /\ calls < MaxEdits /\ SetCurrent(t[1], t[2])
    \/ \E t \in Targets : loaded = NoLoad /\ calls < MaxEdits /\ FlipAt(t[1], t[2])
    \/ \E n \in 0 .. MaxN : current # None /\ goal # None /\ AddNInactives(n)
    \/ \E n \in 0 .. MaxN : current # None /\ goal # None /\ MakeNPaths(n)
    \/ GenContinue
    \/ SearchStep
    \/ RoundTrip

SpecRound == InitRound /\ [][NextRound]_vars

\* the grid and the loaded grid have the same state at every coordinate
SameStates(g) ==
    \A q \in Coords(width, height) : g.cells[q[2]][q[1]].state = cells[q[2]][q[1]].state

\* C13: from_dict(to_dict(g)) has the width, the height, the state of every
\* cell and the current and goal positions of g, for every grid g reached
\* from the constructor by set_current, flip_active, add_n_inactives and
\* make_n_paths.
C13_RoundTripSame ==
    [][RoundTrip =>
          /\ loaded'.status = "loaded"
          /\ loaded'.width = width
          /\ loaded'.height = height
          /\ SameStates(loaded')
          /\ loaded'.current = current
          /\ loaded'.goal = goal]_vars

\* C13 witness: a grid that a generator blocked cells of and the marker then
\* moved on was saved and loaded, Visited and Inactive cells included.
C13_Witness ==
    /\ loaded.status = "loaded"
    /\ gen_done # "none"
    /\ SameStates(loaded)
    /\ loaded.current = current /\ current # None
    /\ \E q \in Coords(width, height) : loaded.cells[q[2]][q[1]].state = "VISITED"
    /\ \E q \in Coords(width, height) : loaded.cells[q[2]][q[1]].state = "INACTIVE"
    /\ \E q \in Coords(width, height) :
          loaded.cells[q[2]][q[1]].prev_state # cells[q[2]][q[1]].prev_state

---------------------------------------------------------------------------
(* Graph, src/lib/base_graph.py, and UndirectedGraph,                      *)
(* src/lib/undirected_graph.py                                             *)

\* the graphs of main.py's traversals(): the tree, the edge that closes a
\* cycle in it, and the graph of two components
TreeNodes == 7
TreeEdges == <<<<0, 1>>, <<1, 2>>, <<2, 3>>, <<2, 4>>, <<4, 5>>, <<2, 6>>>>
ExtraEdge == <<0, 6>>
TwoNodes == 10
TwoEdges == TreeEdges \o <<<<7, 8>>, <<7, 9>>, <<8, 9>>>>

\* "adjacency_list[source].append(dest); adjacency_list[dest].append(source)"
RECURSIVE AppendBoth(_, _)
AppendBoth(adj, edges) ==
    IF edges = <<>> THEN adj
    ELSE LET source == Head(edges)[1]
             dest == Head(edges)[2]
             a1 == [adj EXCEPT ![source] = Append(@, dest)]
         IN  AppendBoth([a1 EXCEPT ![dest] = Append(@, source)], Tail(edges))

\* UndirectedGraph.from_edge_list
undirected_from_edge_list(n, edges) ==
    [nodes |-> 0 .. n - 1,
     adjacency_list |-> AppendBoth([node \in 0 .. n - 1 |-> <<>>], edges)]

\* list.pop(): the list without its last element
Popped(list) == SubSeq(list, 1, Len(list) - 1)

Reverse(list) == [k \in DOMAIN list |-> list[Len(list) + 1 - k]]

\* the loop of graph_traversal_dfs: visited_nodes when it ends
RECURSIVE DfsLoop(_, _, _)
DfsLoop(adj, to_visit_stack, visited_nodes) ==
    IF to_visit_stack = <<>> THEN visited_nodes
    ELSE LET cur == to_visit_stack[Len(to_visit_stack)]
         IN  IF cur \in Range(visited_nodes)
             THEN DfsLoop(adj, Popped(to_visit_stack), visited_nodes)
             ELSE DfsLoop(adj, Popped(to_visit_stack) \o adj[cur],
                          Append(visited_nodes, cur))

graph_traversal_dfs(adj, start_node) == DfsLoop(adj, <<start_node>>, <<>>)

\* the loop of graph_traversal_bfs; insert(0, neighbor) for each neighbour in
\* turn leaves the neighbours reversed at the front of the queue
RECURSIVE BfsLoop(_, _, _)
BfsLoop(adj, to_visit_queue, visited_nodes) ==
    IF to_visit_queue = <<>> THEN visited_nodes
    ELSE LET cur == to_visit_queue[Len(to_visit_queue)]
         IN  IF cur \in Range(visited_nodes)
             THEN BfsLoop(adj, Popped(to_visit_queue), visited_nodes)
             ELSE BfsLoop(adj, Reverse(adj[cur]) \o Popped(to_visit_queue),
                          Append(visited_nodes, cur))

graph_traversal_bfs(adj, start_node) == BfsLoop(adj, <<start_node>>, <<>>)

subgraph_from_nodes(adj, ns) ==
    [nodes |-> Range(ns), adjacency_list |-> [n \in Range(ns) |-> adj[n]]]

\* the loop of connected_components: every list it can return, nodes.pop()
\* taking any node of the set
RECURSIVE ComponentsLoop(_, _, _)
ComponentsLoop(adj, remaining, comps) ==
    IF remaining = {} THEN {comps}
    ELSE UNION {
           LET nodes_in_component == graph_traversal_dfs(adj, current_start)
           IN  ComponentsLoop(adj,
                   (remaining \ {current_start}) \ Range(nodes_in_component),
                   Append(comps, subgraph_from_nodes(adj, nodes_in_component)))
           : current_start \in remaining}

connected_components(ns, adj) == ComponentsLoop(adj, ns, <<>>)

\* UndirectedGraph.num_edges: the entries whose source is above their dest
num_edges(g) ==
    Cardinality({e \in UNION {{<<source, k>> : k \in DOMAIN g.adjacency_list[source]}
                                 : source \in g.nodes} :
                    e[1] > g.adjacency_list[e[1]][e[2]]})

\* is_tree over one list of components
is_tree(comps) ==
    \A k \in DOMAIN comps : ~(num_edges(comps[k]) > Cardinality(comps[k].nodes) - 1)

\* a graph of either variant built by its from_edge_list
BuiltAs(is_directed, n, edges) ==
    LET g == IF is_directed THEN from_edge_list(n, edges)
             ELSE undirected_from_edge_list(n, edges)
    IN  /\ directed = is_directed
        /\ nodes = g.nodes
        /\ adjacency_list = g.adjacency_list

InitQuery ==
    /\ \/ \E n \in 0 .. MaxNodes, is_directed \in BOOLEAN :
            \E edges \in SeqsUpTo((0 .. n - 1) \X (0 .. n - 1), MaxEdges) :
              BuiltAs(is_directed, n, edges)
       \/ BuiltAs(FALSE, TreeNodes, TreeEdges)
       \/ BuiltAs(FALSE, TreeNodes, Append(TreeEdges, ExtraEdge))
       \/ BuiltAs(FALSE, TwoNodes, TwoEdges)
    /\ hc = "none"
    /\ topo = NoTopo
    /\ NoQuery
    /\ width = 0
    /\ height = 0
    /\ cells = <<>>
    /\ current = None
    /\ goal = None
    /\ err = "none"
    /\ inb = TRUE
    /\ calls = 0
    /\ SearchIdle

IsTree ==
    /\ ~directed
    /\ tree = "none"
    /\ \E comps \in connected_components(nodes, adjacency_list) :
          tree' = IF is_tree(comps) THEN "True" ELSE "False"
    /\ UNCHANGED <<directed, components, traversal, gridVars, callVars, searchVars,
                   genVars, graphVars, appVars>>

ConnectedComponents ==
    /\ components = NoComponents
    /\ \E comps \in connected_components(nodes, adjacency_list) :
          components' = [status |-> "returned", list |-> comps]
    /\ UNCHANGED <<directed, tree, traversal, gridVars, callVars, searchVars,
                   genVars, graphVars, appVars>>

TraversalBfs(start_node) ==
    /\ traversal = NoTraversal
    /\ traversal' = [kind |-> "bfs", start |-> start_node,
                     order |-> graph_traversal_bfs(adjacency_list, start_node)]
    /\ UNCHANGED <<directed, tree, components, gridVars, callVars, searchVars,
                   genVars, graphVars, appVars>>

TraversalDfs(start_node) ==
    /\ traversal = NoTraversal
    /\ traversal' = [kind |-> "dfs", start |-> start_node,
                     order |-> graph_traversal_dfs(adjacency_list, start_node)]
    /\ UNCHANGED <<directed, tree, components, gridVars, callVars, searchVars,
                   genVars, graphVars, appVars>>

NextQuery ==
    \/ IsTree
    \/ ConnectedComponents
    \/ \E start_node \in nodes : TraversalBfs(start_node)
    \/ \E start_node \in nodes : TraversalDfs(start_node)

SpecQuery == InitQuery /\ [][NextQuery]_vars

---------------------------------------------------------------------------
(* What the claims about the traversals, the components and is_tree are     *)
(* measured against, defined without the code of the queries.              *)

\* the nodes v leads to, v included; in an undirected graph, its component
ComponentOf(v) == Descendants({v})

\* the entries of the adjacency lists of the nodes of S
RECURSIVE Entries(_)
Entries(S) ==
    IF S = {} THEN 0
    ELSE LET v == CHOOSE x \in S : TRUE
         IN  Len(adjacency_list[v]) + Entries(S \ {v})

\* an undirected graph stores every logical edge as two entries
LogicalEdges(S) == Entries(S) \div 2

\* the members of ns that are not in seen, each once, in the order of ns
RECURSIVE NewOnes(_, _)
NewOnes(ns, seen) ==
    IF ns = <<>> THEN <<>>
    ELSE IF Head(ns) \in seen THEN NewOnes(Tail(ns), seen)
    ELSE <<Head(ns)>> \o NewOnes(Tail(ns), seen \cup {Head(ns)})

\* breadth-first discovery order: the earliest discovered node is expanded
\* next, its neighbours taken in adjacency-list order
RECURSIVE RefBfsLoop(_, _)
RefBfsLoop(queue, order) ==
    IF queue = <<>> THEN order
    ELSE LET found == NewOnes(adjacency_list[Head(queue)], Range(order))
         IN  RefBfsLoop(Tail(queue) \o found, order \o found)

RefBfs(start_node) == RefBfsLoop(<<start_node>>, <<start_node>>)

\* depth-first order: a node is listed, then each of its neighbours not yet
\* listed is descended into, in adjacency-list order
RECURSIVE RefDfsVisit(_, _)
RECURSIVE RefDfsEach(_, _)
RefDfsVisit(v, order) ==
    IF v \in Range(order) THEN order
    ELSE RefDfsEach(adjacency_list[v], Append(order, v))

RefDfsEach(ns, order) ==
    IF ns = <<>> THEN order
    ELSE RefDfsEach(Tail(ns), RefDfsVisit(Head(ns), order))

RefDfs(start_node) == RefDfsVisit(start_node, <<>>)

IsExampleTree ==
    /\ ~directed
    /\ nodes = 0 .. TreeNodes - 1
    /\ adjacency_list = undirected_from_edge_list(TreeNodes, TreeEdges).adjacency_list

IsExampleTwo ==
    /\ ~directed
    /\ nodes = 0 .. TwoNodes - 1
    /\ adjacency_list = undirected_from_edge_list(TwoNodes, TwoEdges).adjacency_list

---------------------------------------------------------------------------
(* Claims about the traversals, the components and is_tree *)

\* C14 as claimed: is_tree() returns True if and only if in every connected
\* component the number of logical edges is the number of nodes minus one,
\* duplicate edges and self-loops counted.
C14_IsTreeExact ==
    tree # "none" =>
        ((tree = "True") <=>
            \A v \in nodes :
               LogicalEdges(ComponentOf(v)) = Cardinality(ComponentOf(v)) - 1)

\* C15 as claimed: for a graph of either variant, the components returned
\* partition the node set, each is an induced subgraph whose adjacency lists
\* hold only its own nodes, and the 10-node example gives two components of
\* sizes 7 and 3.
C15_ComponentsPartition ==
    components.status = "returned" =>
        LET list == components.list
        IN  /\ \A v \in nodes :
                  Cardinality({k \in DOMAIN list : v \in list[k].nodes}) = 1
            /\ \A k \in DOMAIN list :
                  /\ list[k].nodes \subseteq nodes
                  /\ \A n \in list[k].nodes :
                        /\ list[k].adjacency_list[n] = adjacency_list[n]
                        /\ Range(adjacency_list[n]) \subseteq list[k].nodes
            /\ IsExampleTwo =>
                  /\ Len(list) = 2
                  /\ {Cardinality(list[k].nodes) : k \in DOMAIN list} = {7, 3}

\* C16 as claimed: graph_traversal_bfs(start) returns the nodes reachable
\* from start, each once, in breadth-first discovery order, and
\* graph_traversal_dfs(start) returns them in depth-first order descending
\* into the neighbours in adjacency-list order; on the example tree from
\* node 2 they return [2,1,3,4,6,0,5] and [2,1,0,3,4,5,6].
C16_TraversalOrders ==
    traversal.kind # "none" =>
        /\ Range(traversal.order) = ComponentOf(traversal.start)
        /\ Len(traversal.order) = Cardinality(ComponentOf(traversal.start))
        /\ traversal.kind = "bfs" => traversal.order = RefBfs(traversal.start)
        /\ traversal.kind = "dfs" => traversal.order = RefDfs(traversal.start)
        /\ (IsExampleTree /\ traversal.start = 2 /\ traversal.kind = "bfs") =>
              traversal.order = <<2, 1, 3, 4, 6, 0, 5>>
        /\ (IsExampleTree /\ traversal.start = 2 /\ traversal.kind = "dfs") =>
              traversal.order = <<2, 1, 0, 3, 4, 5, 6>>

---------------------------------------------------------------------------
(* Claims about the frontier of the searches and about move_current *)

NoDup(list) == \A i, j \in DOMAIN list : i # j => list[i] # list[j]

\* the coordinates a running search has placed in its frontier so far: those
\* it popped and those still waiting
Placed == path \o to_visit \o [k \in DOMAIN to_visit_heap |-> to_visit_heap[k].position]

\* C17 as claimed: a search places every coordinate, the start included, in
\* its frontier at most once, and the sequence it returns holds no coordinate
\* twice.
C17_NoCoordinateTwice ==
    /\ pc = "search" => NoDup(Placed)
    /\ (Finished /\ result.path # None) => NoDup(result.path)

\* C18 as claimed: current stays inside the grid; a move_current that would
\* step off the grid raises nothing and leaves current and every cell as
\* they were, and one whose target is inside the grid moves current there.
C18_MoveStaysInside ==
    /\ [](current # None => InBounds(width, height, current))
    /\ [][\A i \in DOMAIN DIRECTIONS :
             (/\ current # None
              /\ InBounds(width, height, current)
              /\ MoveCurrent(DIRECTIONS[i])) =>
                 IF InBounds(width, height, MoveTarget(current, DIRECTIONS[i]))
                 THEN current' = MoveTarget(current, DIRECTIONS[i])
                 ELSE current' = current /\ cells' = cells /\ err' = "none"]_vars

====
